---- MODULE Spec2Model ----
(***************************************************************************)
(* Model of the XMTP group-chat session manager of 100msfireside:          *)
(*   - the web client: Chat's setupXMTPChat effect and XMTPProvider        *)
(*     (joinGroup, leaveGroup, the streamAllMessages handler);             *)
(*   - the backend XMTPClientManager session cache;                        *)
(*   - the backend XMTPGroupManager (room -> group association in MongoDB  *)
(*     and Redis, group membership);                                       *)
(*   - ensureXMTPKey under the requests of POST /xmtp/init;                *)
(*   - the wallet (connect, disconnect, account switch) under XMTPProvider;*)
(*   - XMTPGroupManager.getMessages, the message formatting helpers, the   *)
(*     mention parser, addMembersWithAddresses / getInboxIdFromAddress.    *)
(***************************************************************************)
EXTENDS Integers, Sequences, FiniteSets, TLC

None == "none"

\* ------------------------------------------------------------------ bounds
MaxSetups == 2        \* runs of setupXMTPChat that reach joinGroup
MaxMsgs == 2          \* messages sent on the network
MaxSyncCount == 21    \* cap of the syncAll counter of SpecJoin
MaxCreates == 3       \* Client.create calls explored by SpecClient
StartTime == 1000     \* Date.now() when the backend starts
MaxNow == 3700000     \* the clock of SpecClient stops here
MaxGroups == 2        \* groups created on the network in SpecGroup
MaxKeys == 3          \* encryption keys generated in SpecKey
MaxTs == 3            \* messages (send timestamps 1..MaxTs) of the group in SpecPages
MaxSends == 2         \* messages sent and received in SpecFormat
MaxHeld == 3          \* length of the message list in SpecDisplay
MaxLen == 5           \* characters in the message input

\* ------------------------------------------------------- program constants
maxRetries == 5       \* joinGroup: sync attempts per call
chatMaxRetries == 3   \* Chat.setupXMTPChat: retryJoinGroup calls per run
SESSION_TIMEOUT == 3600000   \* XMTPClientManager.SESSION_TIMEOUT, milliseconds

Groups == {"g1", "g2"}
Setup == 0                       \* the caller "setupXMTPChat"
Chains == 1..MaxSetups           \* retryJoinGroup timer chains, one per run
Apps == {101}                    \* other consumers of useXMTP() calling joinGroup
Callers == {Setup} \cup Chains \cup Apps

Actors == {"fid1", "fid2"}       \* userFid values
Reqs == {1, 2}                   \* backend requests running concurrently

Rooms == {"r1"}                  \* MongoDB room ids
Addrs == {"0xa", "0xb"}          \* wallet addresses
Registered == {"0xa"}            \* the addresses that have an XMTP inbox
InboxOf == [a \in Addrs |-> IF a = "0xa" THEN "ixa" ELSE "ixb"]
NoGroup == 0                     \* no xmtpGroupId / no Redis key
GroupIds == 1..MaxGroups         \* ids issued by conversations.newGroup

VARIABLES
  \* --- Chat component (apps/web/components Chat)
  isOpen,         \* prop isOpen
  joiningGroup,   \* useState joiningGroup
  setupPc,        \* position of the running setupXMTPChat: idle | init | info | join
  setupRuns,      \* number of runs of setupXMTPChat that called joinGroup
  chains,         \* retryJoinGroup closures: [pc, gid, retryCount]
  toast,          \* last user-facing toast
  \* --- XMTPProvider
  client,         \* useState client (None, or the address its signer was made for)
  currentGroup,   \* useState currentGroup (None or a group id)
  messages,       \* useState messages
  error,          \* useState error
  streamCleanup,  \* useState streamCleanup (TRUE when a function is stored)
  join,           \* in-flight joinGroup calls per caller: [pc, gid, attempt]
  \* --- wallet (wagmi useAccount)
  address,        \* connected account (None: not connected, isConnected is false)
  \* --- messaging network, as seen by this participant
  visible,        \* group is in the participant's synchronized conversation list
  netMsgs,        \* messages on the network in send order: netMsgs[id] = conversation id
  streams,        \* group ids captured by the onValue handlers that are still subscribed
  \* --- history variables
  syncAttempts,   \* conversations.syncAll() calls since the chat was opened
  leftClean,      \* leaveGroup returned, no joinGroup was in flight then or started since
  lastOp,         \* label of the last step taken
  \* --- backend XMTPClientManager
  clients,          \* Map userFid -> Client (0: no entry)
  clientTimestamps, \* Map userFid -> number (0: no entry)
  now,              \* Date.now()
  call,             \* getOrCreateClient per request: [pc, fid, ret]
  created,          \* Client objects constructed so far (the next one is created + 1)
  createdAt,        \* history: for each userFid, when its cached client was stored
  mgrOp,            \* history: the last step of the manager, [op, fid, ret]; ret is what
                    \* a getClient returned, or how many sessions a cleanup removed
  invalidated,      \* history: the clients that existed for an actor when removeClient
                    \* was called for it
  \* --- backend XMTPGroupManager and its stores
  mongo,            \* Room.xmtpGroupId per room (NoGroup: unset)
  redis,            \* Redis key roomKeys.xmtpGroup(roomId) per room (NoGroup: no key)
  groupsCreated,    \* groups created on the network so far
  members,          \* inbox ids in each group on the network
  op,               \* running XMTPGroupManager calls per request: [kind, pc, room, gid, inbox]
  lastRet,          \* what the call that finished last returned: [kind, room, status, gid]
  faulted,          \* history: some store or network access has failed
  \* --- User documents and the requests of POST /xmtp/init
  userKey,          \* User.xmtpEncryptionKey as persisted, per fid (NoKey: unset)
  doc,              \* the User document loaded by each request: [pc, fid, key, ret]
  keysGenerated,    \* generateXMTPEncryptionKey calls so far (the next key is keysGenerated + 1)
  \* --- XMTPGroupManager.getMessages
  netOrder,         \* send timestamps of the group's messages, in the order
                    \* conversation.messages() returns them
  page,             \* what the last getMessages call returned
  pageArgs,         \* its arguments [limit, offset]
  \* --- message formatting (messageHelpers) and the Chat view
  profiles,         \* userProfileCache: inbox id -> UserProfile (NoSender: no entry)
  wire,             \* the XMTP message received last: [id, senderInboxId, content, sentAt]
  decoded,          \* formatXMTPMessage(wire), computed when it was received
  lastSend,         \* history: the arguments of the sendMessage / sendReply that made wire
  held,             \* a message list of XMTPProvider, in arrival order
  shown,            \* Chat.formattedMessages for it
  \* --- the message input of Chat and handleSendMessage
  typed,            \* useState message of Chat: the characters in the input box
  mentionableUsers, \* useState mentionableUsers
  messageText,      \* handleSendMessage's messageText (<<>>: no call since the last event)
  mentions,         \* what its extractMentions call returned
  \* --- addMembersWithAddresses and getInboxIdFromAddress
  batch,            \* the locals of the addMembersWithAddresses call of each request
  resolved,         \* history: the last getInboxIdFromAddress call, [address, outcome, ret]
  lastBatch         \* history: the addMembersWithAddresses call that finished last

chatVars == <<isOpen, joiningGroup, setupPc, setupRuns, chains, toast>>
provVars == <<client, currentGroup, messages, error, streamCleanup, join>>
netVars == <<visible, netMsgs, streams>>
webVars == <<chatVars, provVars, netVars, syncAttempts, leftClean, lastOp>>

mgrVars == <<clients, clientTimestamps, now, call, created, createdAt, mgrOp, invalidated>>

grpVars == <<mongo, redis, groupsCreated, members, op, lastRet, faulted>>

keyVars == <<userKey, doc, keysGenerated>>

walletVars == <<address>>

pageVars == <<netOrder, page, pageArgs>>

\* the variables of the message functions (paging, formatting, mentions)
fmtVars == <<profiles, wire, decoded, lastSend>>
listVars == <<held, shown>>
mentionVars == <<typed, mentionableUsers, messageText, mentions>>
libVars == <<pageVars, fmtVars, listVars, mentionVars>>

batchVars == <<batch, resolved, lastBatch>>

\* what the steps of the web client, and of each backend part, leave unchanged
notWeb == <<walletVars, mgrVars, grpVars, keyVars, libVars, batchVars>>
notMgr == <<walletVars, webVars, grpVars, keyVars, libVars, batchVars>>
notGrp == <<walletVars, webVars, mgrVars, keyVars, libVars, batchVars>>
notKey == <<walletVars, webVars, mgrVars, grpVars, libVars, batchVars>>
notLib == <<walletVars, webVars, mgrVars, grpVars, keyVars, batchVars>>

NoJoin == [pc |-> "none", gid |-> None, attempt |-> 0]
NoChain == [pc |-> "none", gid |-> None, retryCount |-> 0]

InitWeb ==
  /\ address = "0xa"
  /\ isOpen = FALSE
  /\ joiningGroup = FALSE
  /\ setupPc = "idle"
  /\ setupRuns = 0
  /\ chains = [k \in Chains |-> NoChain]
  /\ toast = None
  /\ client = None
  /\ currentGroup = None
  /\ messages = <<>>
  /\ error = None
  /\ streamCleanup = FALSE
  /\ join = [c \in Callers |-> NoJoin]
  /\ visible = [g \in Groups |-> FALSE]
  /\ netMsgs = <<>>
  /\ streams = {}
  /\ syncAttempts = 0
  /\ leftClean = FALSE
  /\ lastOp = "init"

\* ------------------------------------------------------------- the network
\* a DecodedMessage of the network (id, conversationId)
MsgRec(i) == [id |-> i, conversationId |-> netMsgs[i]]

\* group.messages(): the messages of one conversation, in send order
GroupMessages(g) ==
  SelectSeq([i \in 1..Len(netMsgs) |-> MsgRec(i)], LAMBDA m : m.conversationId = g)

\* the XMTPMessage entry built from a network message; via is a history field
\* telling whether the history load or the live stream put it into the list
Entry(m, via) == [id |-> m.id, via |-> via]

FormatHistory(ms) == [k \in 1..Len(ms) |-> Entry(ms[k], "history")]

\* somebody sends a message to group g
NetSend(g) ==
  /\ Len(netMsgs) < MaxMsgs
  /\ netMsgs' = Append(netMsgs, g)
  /\ lastOp' = "other"
  /\ UNCHANGED <<chatVars, provVars, visible, streams, syncAttempts, leftClean>>
  /\ UNCHANGED notWeb

\* the host adds the participant to group g
NetAddMember(g) ==
  /\ ~visible[g]
  /\ visible' = [visible EXCEPT ![g] = TRUE]
  /\ lastOp' = "other"
  /\ UNCHANGED <<chatVars, provVars, netMsgs, streams, syncAttempts, leftClean>>
  /\ UNCHANGED notWeb

\* ------------------------------------------------------------ XMTPProvider
JoinInFlight == \E c \in Callers : join[c].pc # "none"

\* setMessages(prev => ...) of the onValue handler
AppendIfNewNoDedup(prev, message) == Append(prev, Entry(message, "stream"))

AppendIfNew(prev, message) ==
  IF \E k \in 1..Len(prev) : prev[k].id = message.id
    THEN prev
    ELSE Append(prev, Entry(message, "stream"))

\* the conversation filter of the onValue handler
Accepts(message, groupId) == message.conversationId = groupId

\* onValue of the stream opened by joinGroup(groupId), fed message i
StreamDeliver(groupId, i) ==
  /\ groupId \in streams
  /\ i \in 1..Len(netMsgs)
  /\ IF Accepts(MsgRec(i), groupId)
       THEN /\ messages' = AppendIfNew(messages, MsgRec(i))
            /\ lastOp' = IF messages' = messages THEN "deliver_dup" ELSE "deliver_append"
       ELSE /\ messages' = messages
            /\ lastOp' = "deliver_other"
  /\ UNCHANGED <<chatVars, client, currentGroup, error, streamCleanup, join,
                 netVars, syncAttempts, leftClean>>
  /\ UNCHANGED notWeb

\* the function stored by setStreamCleanup: it logs and ends no subscription
CleanupStreams(s) == s

\* leaveGroup()
leaveGroup ==
  /\ streams' = IF streamCleanup THEN CleanupStreams(streams) ELSE streams
  /\ streamCleanup' = FALSE
  /\ currentGroup' = None
  /\ messages' = <<>>
  /\ leftClean' = ~JoinInFlight
  /\ lastOp' = "leave"
  /\ UNCHANGED <<chatVars, client, error, join, visible, netMsgs, syncAttempts>>
  /\ UNCHANGED notWeb


\* the awaiting caller resumes with joinGroup's result ret, in the same task:
\* setupXMTPChat (toast, retry timer, finally) or retryJoinGroup
Return(c, ret) ==
  IF c = Setup
    THEN /\ toast' = IF ret THEN "connected" ELSE "waiting"
         /\ chains' = IF ret THEN chains
                       ELSE [chains EXCEPT ![setupRuns] =
                               [pc |-> "timer", gid |-> join[c].gid, retryCount |-> 0]]
         /\ joiningGroup' = FALSE
         /\ setupPc' = "idle"
         /\ UNCHANGED <<isOpen, setupRuns>>
    ELSE IF c \in Chains
    THEN /\ IF ret
              THEN /\ toast' = "connected"
                   /\ chains' = [chains EXCEPT ![c] = NoChain]
              ELSE IF chains[c].retryCount < chatMaxRetries
                     THEN /\ toast' = toast
                          /\ chains' = [chains EXCEPT ![c].pc = "timer"]
                     ELSE /\ toast' = "unable_join"
                          /\ chains' = [chains EXCEPT ![c] = NoChain]
         /\ UNCHANGED <<isOpen, joiningGroup, setupPc, setupRuns>>
    ELSE UNCHANGED chatVars

\* joinGroup's catch block: setError, return false
JoinThrow(c) ==
  /\ error' = "Failed to join group"
  /\ join' = [join EXCEPT ![c] = NoJoin]
  /\ Return(c, FALSE)

\* the retry loop's bound: attempt a was the last one
JoinAttemptsExhausted(a) == ~(a + 1 < maxRetries)

\* joinGroup, one iteration of the retry loop: (backoff wait,) syncAll, list, find
JoinSync(c) ==
  /\ join[c].pc = "sync"
  /\ lastOp' = "other"
  /\ \E ok \in BOOLEAN :
       IF ~ok
         THEN /\ JoinThrow(c)
              /\ UNCHANGED <<client, currentGroup, messages, streamCleanup>>
         ELSE IF visible[join[c].gid]
           THEN /\ join' = [join EXCEPT ![c].pc = "attach"]
                /\ UNCHANGED <<chatVars, client, currentGroup, messages, error, streamCleanup>>
           ELSE IF ~JoinAttemptsExhausted(join[c].attempt)
             THEN /\ join' = [join EXCEPT ![c].attempt = @ + 1]
                  /\ UNCHANGED <<chatVars, client, currentGroup, messages, error, streamCleanup>>
             ELSE /\ error' = "Group not found"
                  /\ join' = [join EXCEPT ![c] = NoJoin]
                  /\ Return(c, FALSE)
                  /\ UNCHANGED <<client, currentGroup, messages, streamCleanup>>
  /\ UNCHANGED <<netVars, leftClean>>

\* joinGroup: await group.sync(); setCurrentGroup(group)
JoinAttach(c) ==
  /\ join[c].pc = "attach"
  /\ \E ok \in BOOLEAN :
       IF ok
         THEN /\ currentGroup' = join[c].gid
              /\ join' = [join EXCEPT ![c].pc = "history"]
              /\ lastOp' = "other"
              /\ UNCHANGED <<chatVars, error>>
         ELSE /\ JoinThrow(c)
              /\ lastOp' = "other"
              /\ UNCHANGED currentGroup
  /\ UNCHANGED <<client, messages, streamCleanup, netVars, syncAttempts, leftClean>>
  /\ UNCHANGED notWeb

\* joinGroup: await group.messages(); setMessages(formattedMessages)
JoinHistory(c) ==
  /\ join[c].pc = "history"
  /\ \E ok \in BOOLEAN :
       IF ok
         THEN /\ messages' = FormatHistory(GroupMessages(join[c].gid))
              /\ join' = [join EXCEPT ![c].pc = "stream"]
              /\ lastOp' = "history"
              /\ UNCHANGED <<chatVars, error>>
         ELSE /\ JoinThrow(c)
              /\ lastOp' = "other"
              /\ UNCHANGED messages
  /\ UNCHANGED <<client, currentGroup, streamCleanup, netVars, syncAttempts, leftClean>>
  /\ UNCHANGED notWeb

\* joinGroup: await streamAllMessages({onValue}); setStreamCleanup; return true
JoinStream(c) ==
  /\ join[c].pc = "stream"
  /\ \E ok \in BOOLEAN :
       IF ok
         THEN /\ streams' = streams \cup {join[c].gid}
              /\ streamCleanup' = TRUE
              /\ join' = [join EXCEPT ![c] = NoJoin]
              /\ Return(c, TRUE)
              /\ lastOp' = "other"
              /\ UNCHANGED error
         ELSE /\ JoinThrow(c)
              /\ lastOp' = "other"
              /\ UNCHANGED <<streams, streamCleanup>>
  /\ UNCHANGED <<client, currentGroup, messages, visible, netMsgs, syncAttempts, leftClean>>
  /\ UNCHANGED notWeb

\* initializeClient(), run by the auto-initialize effect once the wallet is connected
InitializeClient ==
  /\ address # None
  /\ client = None
  /\ \E ok \in BOOLEAN :
       /\ client' = IF ok THEN address ELSE None
       /\ error' = IF ok THEN None ELSE "Failed to initialize XMTP client"
  /\ lastOp' = "other"
  /\ UNCHANGED <<chatVars, currentGroup, messages, streamCleanup, join, netVars,
                 syncAttempts, leftClean>>
  /\ UNCHANGED notWeb

\* the wallet connects with account a; the auto-initialize effect then
\* schedules initializeClient
WalletConnect(a) ==
  /\ address = None
  /\ address' = a
  /\ lastOp' = "other"
  /\ UNCHANGED <<chatVars, provVars, netVars, syncAttempts, leftClean>>
  /\ UNCHANGED <<mgrVars, grpVars, keyVars, libVars, batchVars>>

\* the wallet disconnects; the effect [isConnected, client] clears the session
WalletDisconnect ==
  /\ address # None
  /\ address' = None
  /\ IF client # None
       THEN /\ client' = None
            /\ currentGroup' = None
            /\ messages' = <<>>
            /\ error' = None
       ELSE UNCHANGED <<client, currentGroup, messages, error>>
  /\ lastOp' = "other"
  /\ UNCHANGED <<chatVars, streamCleanup, join, netVars, syncAttempts, leftClean>>
  /\ UNCHANGED <<mgrVars, grpVars, keyVars, libVars, batchVars>>

\* the connected wallet switches to account a: isConnected stays true, the
\* disconnect effect does nothing, and with a client in place neither does
\* the auto-initialize effect
WalletSwitch(a) ==
  /\ address # None /\ address # a
  /\ address' = a
  /\ lastOp' = "other"
  /\ UNCHANGED <<chatVars, provVars, netVars, syncAttempts, leftClean>>
  /\ UNCHANGED <<mgrVars, grpVars, keyVars, libVars, batchVars>>

\* a consumer calls joinGroup(groupId): the guard, then up to the first await
AppJoin(a, groupId) ==
  /\ join[a].pc = "none"
  /\ IF client = None
       THEN /\ error' = "XMTP client not initialized"
            /\ UNCHANGED <<join, leftClean>>
       ELSE /\ join' = [join EXCEPT ![a] = [pc |-> "sync", gid |-> groupId, attempt |-> 0]]
            /\ leftClean' = FALSE
            /\ UNCHANGED error
  /\ lastOp' = "other"
  /\ UNCHANGED <<chatVars, client, currentGroup, messages, streamCleanup, netVars,
                 syncAttempts>>
  /\ UNCHANGED notWeb

\* a consumer calls leaveGroup()
\* ---------------------------------------------------------- Chat component
\* setIsChatOpen: the drawer opens or closes
OpenChat ==
  /\ ~isOpen
  /\ isOpen' = TRUE
  /\ lastOp' = "other"
  /\ UNCHANGED <<joiningGroup, setupPc, setupRuns, chains, toast,
                 provVars, netVars, syncAttempts, leftClean>>
  /\ UNCHANGED notWeb

\* the effect [isOpen, roomId, client, currentGroup, joiningGroup, ...] runs
\* setupXMTPChat up to its first await
SetupStart ==
  /\ isOpen /\ ~joiningGroup /\ currentGroup = None
  /\ setupPc = "idle"
  /\ joiningGroup' = TRUE
  /\ setupPc' = IF client = None THEN "init" ELSE "info"
  /\ lastOp' = "other"
  /\ UNCHANGED <<isOpen, setupRuns, chains, toast, provVars, netVars,
                 syncAttempts, leftClean>>
  /\ UNCHANGED notWeb

\* setupXMTPChat without a client: await initializeClient(); finally
SetupInitDone ==
  /\ setupPc = "init"
  /\ \E ok \in BOOLEAN :
       /\ client' = IF ok THEN address ELSE None
       /\ error' = IF ok THEN None ELSE "Failed to initialize XMTP client"
  /\ joiningGroup' = FALSE
  /\ setupPc' = "idle"
  /\ lastOp' = "other"
  /\ UNCHANGED <<isOpen, setupRuns, chains, toast, currentGroup, messages,
                 streamCleanup, join, netVars, syncAttempts, leftClean>>
  /\ UNCHANGED notWeb

\* setupXMTPChat: await getXMTPGroupInfo(roomId); then either throw, or
\* "being set up", or call joinGroup(xmtpGroupId) up to its first await
SetupInfo ==
  /\ setupPc = "info"
  /\ \/ /\ toast' = "error"                  \* !ok: throw, catch, finally
        /\ joiningGroup' = FALSE
        /\ setupPc' = "idle"
        /\ lastOp' = "other"
        /\ UNCHANGED <<setupRuns, join, leftClean>>
     \/ /\ toast' = "setting_up"             \* !exists: return, finally
        /\ joiningGroup' = FALSE
        /\ setupPc' = "idle"
        /\ lastOp' = "other"
        /\ UNCHANGED <<setupRuns, join, leftClean>>
     \/ \E g \in Groups :
          /\ setupRuns < MaxSetups
          /\ setupRuns' = setupRuns + 1
          /\ join' = [join EXCEPT ![Setup] = [pc |-> "sync", gid |-> g, attempt |-> 0]]
          /\ setupPc' = "join"
          /\ leftClean' = FALSE
          /\ lastOp' = "other"
          /\ UNCHANGED <<toast, joiningGroup>>
  /\ UNCHANGED <<isOpen, chains, client, currentGroup, messages, error,
                 streamCleanup, netVars, syncAttempts>>
  /\ UNCHANGED notWeb

\* setTimeout(retryJoinGroup, retryDelay) fires: retryCount++, joinGroup(xmtpGroupId)
RetryFire(k) ==
  /\ chains[k].pc = "timer"
  /\ chains' = [chains EXCEPT ![k] = [@ EXCEPT !.pc = "joining", !.retryCount = @ + 1]]
  /\ join' = [join EXCEPT ![k] = [pc |-> "sync", gid |-> chains[k].gid, attempt |-> 0]]
  /\ leftClean' = FALSE
  /\ lastOp' = "other"
  /\ UNCHANGED <<isOpen, joiningGroup, setupPc, setupRuns, toast, client,
                 currentGroup, messages, error, streamCleanup, netVars, syncAttempts>>
  /\ UNCHANGED notWeb

\* ------------------------------------------------- backend XMTPClientManager
\* Map.get() of a missing key (undefined); no Client and no Date.now() is 0
Absent == 0


\* the history record of a step that is not a getClient or a cleanup
OtherOp == [op |-> "other", fid |-> None, ret |-> Absent]

InitMgr ==
  /\ clients = [f \in Actors |-> Absent]
  /\ clientTimestamps = [f \in Actors |-> Absent]
  /\ now = StartTime
  /\ call = [r \in Reqs |-> [pc |-> "idle", fid |-> None, ret |-> Absent]]
  /\ created = 0
  /\ createdAt = [f \in Actors |-> Absent]
  /\ mgrOp = [op |-> "init", fid |-> None, ret |-> Absent]
  /\ invalidated = {}

\* time passes
Tick(d) ==
  /\ now + d <= MaxNow
  /\ now' = now + d
  /\ mgrOp' = OtherOp
  /\ UNCHANGED <<clients, clientTimestamps, call, created, createdAt, invalidated>>
  /\ UNCHANGED notMgr

\* the cache test of getOrCreateClient and getClient
ValidLax(cachedClient, timestamp, t) ==
  cachedClient # Absent /\ timestamp # Absent /\ t - timestamp <= SESSION_TIMEOUT

Valid(cachedClient, timestamp, t) ==
  cachedClient # Absent /\ timestamp # Absent /\ t - timestamp < SESSION_TIMEOUT

\* a hit that leaves the timestamp as it was
TouchSkipped(timestamps, userFid, t) == timestamps

\* the hit of getOrCreateClient: this.clientTimestamps.set(userFid, Date.now())
Touch(timestamps, userFid, t) == [timestamps EXCEPT ![userFid] = t]

\* getOrCreateClient(userFid) up to its return or its await of createClient
GetOrCreateClient(r, userFid) ==
  /\ call[r].pc # "creating"
  /\ IF Valid(clients[userFid], clientTimestamps[userFid], now)
       THEN /\ clientTimestamps' = Touch(clientTimestamps, userFid, now)
            /\ call' = [call EXCEPT ![r] =
                          [pc |-> "done", fid |-> userFid, ret |-> clients[userFid]]]
            /\ UNCHANGED created
       ELSE /\ created < MaxCreates
            /\ created' = created + 1       \* Client.create(signer, ...) is entered
            /\ call' = [call EXCEPT ![r] =
                          [pc |-> "creating", fid |-> userFid, ret |-> created + 1]]
            /\ UNCHANGED clientTimestamps
  /\ mgrOp' = OtherOp
  /\ UNCHANGED <<clients, now, createdAt, invalidated>>
  /\ UNCHANGED notMgr

\* a resumption that caches the client although createClient rejected
CreateClientDoneStoring(r) ==
  /\ call[r].pc = "creating"
  /\ \E ok \in BOOLEAN :
       /\ clients' = [clients EXCEPT ![call[r].fid] = call[r].ret]
       /\ clientTimestamps' = [clientTimestamps EXCEPT ![call[r].fid] = now]
       /\ createdAt' = [createdAt EXCEPT ![call[r].fid] = now]
       /\ IF ok
            THEN call' = [call EXCEPT ![r].pc = "done"]
            ELSE call' = [call EXCEPT ![r] =
                            [pc |-> "failed", fid |-> call[r].fid, ret |-> Absent]]
  /\ mgrOp' = OtherOp
  /\ UNCHANGED <<now, created, invalidated>>
  /\ UNCHANGED notMgr

\* the await of createClient resumes: cache the client, or rethrow
CreateClientDone(r) ==
  /\ call[r].pc = "creating"
  /\ \E ok \in BOOLEAN :
       IF ok
         THEN /\ clients' = [clients EXCEPT ![call[r].fid] = call[r].ret]
              /\ clientTimestamps' = [clientTimestamps EXCEPT ![call[r].fid] = now]
              /\ createdAt' = [createdAt EXCEPT ![call[r].fid] = now]
              /\ call' = [call EXCEPT ![r].pc = "done"]
         ELSE /\ call' = [call EXCEPT ![r] = [pc |-> "failed", fid |-> call[r].fid, ret |-> Absent]]
              /\ UNCHANGED <<clients, clientTimestamps, createdAt>>
  /\ mgrOp' = OtherOp
  /\ UNCHANGED <<now, created, invalidated>>
  /\ UNCHANGED notMgr

\* removeClient(userFid)
removeClient(userFid) ==
  /\ clients' = [clients EXCEPT ![userFid] = Absent]
  /\ clientTimestamps' = [clientTimestamps EXCEPT ![userFid] = Absent]
  /\ createdAt' = [createdAt EXCEPT ![userFid] = Absent]
  /\ UNCHANGED <<now, call, created>>
  /\ UNCHANGED notMgr

\* the clients that exist for userFid: the cached one and those that running
\* getOrCreateClient calls are constructing
ClientsOf(userFid) ==
  ({clients[userFid]} \ {Absent})
    \cup {call[r].ret : r \in {q \in Reqs : call[q].pc = "creating" /\ call[q].fid = userFid}}

\* a caller invalidates the session of userFid
Invalidate(userFid) ==
  /\ ClientsOf(userFid) # {} \/ clientTimestamps[userFid] # Absent
  /\ removeClient(userFid)
  /\ mgrOp' = OtherOp

\* the test of cleanup()
ExpiredStrict(timestamp, t) == timestamp # Absent /\ t - timestamp > SESSION_TIMEOUT

Expired(timestamp, t) == timestamp # Absent /\ t - timestamp >= SESSION_TIMEOUT

\* cleanup(), run by setInterval, with an entry in clientTimestamps to look at
cleanup ==
  /\ \E f \in Actors : clientTimestamps[f] # Absent
  /\ clients' = [f \in Actors |->
                   IF Expired(clientTimestamps[f], now) THEN Absent ELSE clients[f]]
  /\ clientTimestamps' = [f \in Actors |->
                   IF Expired(clientTimestamps[f], now) THEN Absent ELSE clientTimestamps[f]]
  /\ createdAt' = [f \in Actors |->
                   IF Expired(clientTimestamps[f], now) THEN Absent ELSE createdAt[f]]
  /\ mgrOp' = [op |-> "cleanup", fid |-> None,
               ret |-> Cardinality({f \in Actors : Expired(clientTimestamps[f], now)})]
  /\ UNCHANGED <<now, call, created, invalidated>>
  /\ UNCHANGED notMgr

\* a getClient that returns the cached client whatever its age
getClientAnyAge(userFid) == clients[userFid]

\* getClient(userFid): the cached client while its timestamp is younger than
\* SESSION_TIMEOUT, undefined otherwise
getClient(userFid) ==
  IF clientTimestamps[userFid] # Absent /\ now - clientTimestamps[userFid] < SESSION_TIMEOUT
    THEN clients[userFid]
    ELSE Absent

\* a request calls getClient(userFid)
GetClient(userFid) ==
  /\ mgrOp' = [op |-> "getClient", fid |-> userFid, ret |-> getClient(userFid)]
  /\ UNCHANGED <<clients, clientTimestamps, now, call, created, createdAt, invalidated>>
  /\ UNCHANGED notMgr

\* -------------------------------------------------- backend XMTPGroupManager
Idle == [kind |-> "idle", pc |-> "idle", room |-> None, gid |-> NoGroup, inbox |-> None]

InitGrp ==
  /\ mongo = [room \in Rooms |-> NoGroup]
  /\ redis = [room \in Rooms |-> NoGroup]
  /\ groupsCreated = 0
  /\ members = [g \in GroupIds |-> {}]
  /\ faulted = FALSE
  /\ op = [r \in Reqs |-> Idle]
  /\ lastRet = [kind |-> "idle", room |-> None, status |-> None, gid |-> NoGroup]

\* the call of request r returns (status "ok", "false", "null") or throws
Finish(r, kind, room, status, gid) ==
  /\ op' = [op EXCEPT ![r] = Idle]
  /\ lastRet' = [kind |-> kind, room |-> room, status |-> status, gid |-> gid]

\* a set that leaves the key as it was
RedisSetSkipped(store, room, gid) == store

\* redisClient.set(RedisUtils.roomKeys.xmtpGroup(roomId), groupId, 'EX', TTL)
RedisSet(store, room, gid) == [store EXCEPT ![room] = gid]

\* the response of DELETE /:id/messages once deleteGroup has returned: its
\* boolean result is not read, every return is answered with a success
DeleteResponse(deleted) == "success"

\* the Redis key expires (set ... 'EX', RedisUtils.TTL)
RedisExpire(room) ==
  /\ redis[room] # NoGroup
  /\ redis' = [redis EXCEPT ![room] = NoGroup]
  /\ UNCHANGED <<mongo, groupsCreated, members, op, lastRet, faulted, notGrp>>

\* createRoomGroup(client, roomId, roomName, participantAddresses): the inbox
\* ids of the participants that can message, then await newGroup(inboxIds)
CreateNewGroup(r, room, addrs) ==
  /\ op[r].pc = "idle"
  /\ \E ok \in BOOLEAN :
       /\ faulted' = (faulted \/ ~ok)
       /\ IF ok
         THEN /\ groupsCreated < MaxGroups
              /\ groupsCreated' = groupsCreated + 1
              /\ members' = [members EXCEPT ![groupsCreated + 1] =
                               {InboxOf[a] : a \in addrs \cap Registered}]
              /\ op' = [op EXCEPT ![r] = [kind |-> "create", pc |-> "mongo", room |-> room,
                                          gid |-> groupsCreated + 1, inbox |-> None]]
              /\ UNCHANGED lastRet
         ELSE /\ Finish(r, "create", room, "throw", NoGroup)
              /\ UNCHANGED <<groupsCreated, members>>
  /\ UNCHANGED <<mongo, redis, notGrp>>

\* createRoomGroup: await Room.findByIdAndUpdate(roomId, { xmtpGroupId: groupId })
CreateMongo(r) ==
  /\ op[r].kind = "create" /\ op[r].pc = "mongo"
  /\ \E ok \in BOOLEAN :
       /\ faulted' = (faulted \/ ~ok)
       /\ IF ok
         THEN /\ mongo' = [mongo EXCEPT ![op[r].room] = op[r].gid]
              /\ op' = [op EXCEPT ![r].pc = "redis"]
              /\ UNCHANGED lastRet
         ELSE /\ Finish(r, "create", op[r].room, "throw", op[r].gid)
              /\ UNCHANGED mongo
  /\ UNCHANGED <<redis, groupsCreated, members, notGrp>>

\* createRoomGroup: await redisClient.set(key, groupId, 'EX', TTL); return groupId
CreateRedis(r) ==
  /\ op[r].kind = "create" /\ op[r].pc = "redis"
  /\ \E ok \in BOOLEAN :
       /\ faulted' = (faulted \/ ~ok)
       /\ IF ok
         THEN /\ redis' = RedisSet(redis, op[r].room, op[r].gid)
              /\ Finish(r, "create", op[r].room, "ok", op[r].gid)
         ELSE /\ Finish(r, "create", op[r].room, "throw", op[r].gid)
              /\ UNCHANGED redis
  /\ UNCHANGED <<mongo, groupsCreated, members, notGrp>>

\* getGroupId(roomId): await redisClient.get(key); a hit returns
GetRedis(r, room) ==
  /\ op[r].pc = "idle"
  /\ \E ok \in BOOLEAN :
       /\ faulted' = (faulted \/ ~ok)
       /\ IF ~ok
         THEN Finish(r, "get", room, "null", NoGroup)
         ELSE IF redis[room] # NoGroup
           THEN Finish(r, "get", room, "ok", redis[room])
           ELSE /\ op' = [op EXCEPT ![r] = [kind |-> "get", pc |-> "mongo", room |-> room,
                                            gid |-> NoGroup, inbox |-> None]]
                /\ UNCHANGED lastRet
  /\ UNCHANGED <<mongo, redis, groupsCreated, members, notGrp>>

\* getGroupId: await Room.findById(roomId)
GetMongo(r) ==
  /\ op[r].kind = "get" /\ op[r].pc = "mongo"
  /\ \E ok \in BOOLEAN :
       /\ faulted' = (faulted \/ ~ok)
       /\ IF ~ok
         THEN Finish(r, "get", op[r].room, "null", NoGroup)
         ELSE IF mongo[op[r].room] # NoGroup
           THEN /\ op' = [op EXCEPT ![r] = [@ EXCEPT !.pc = "redis", !.gid = mongo[op[r].room]]]
                /\ UNCHANGED lastRet
           ELSE Finish(r, "get", op[r].room, "null", NoGroup)
  /\ UNCHANGED <<mongo, redis, groupsCreated, members, notGrp>>

\* getGroupId: await redisClient.set(key, room.xmtpGroupId, 'EX', TTL); return it
GetRedisSet(r) ==
  /\ op[r].kind = "get" /\ op[r].pc = "redis"
  /\ \E ok \in BOOLEAN :
       /\ faulted' = (faulted \/ ~ok)
       /\ IF ok
         THEN /\ redis' = RedisSet(redis, op[r].room, op[r].gid)
              /\ Finish(r, "get", op[r].room, "ok", op[r].gid)
         ELSE /\ Finish(r, "get", op[r].room, "null", NoGroup)
              /\ UNCHANGED redis
  /\ UNCHANGED <<mongo, groupsCreated, members, notGrp>>

\* deleteGroup(client, groupId, roomId): await Room.findByIdAndUpdate($unset)
DeleteMongo(r, room) ==
  /\ op[r].pc = "idle"
  /\ \E ok \in BOOLEAN :
       /\ faulted' = (faulted \/ ~ok)
       /\ IF ok
         THEN /\ mongo' = [mongo EXCEPT ![room] = NoGroup]
              /\ op' = [op EXCEPT ![r] = [kind |-> "delete", pc |-> "redis", room |-> room,
                                          gid |-> NoGroup, inbox |-> None]]
              /\ UNCHANGED lastRet
         ELSE /\ Finish(r, "delete", room, "false", NoGroup)
              /\ UNCHANGED mongo
  /\ UNCHANGED <<redis, groupsCreated, members, notGrp>>

\* deleteGroup: await redisClient.del(key); return true
DeleteRedis(r) ==
  /\ op[r].kind = "delete" /\ op[r].pc = "redis"
  /\ \E ok \in BOOLEAN :
       /\ faulted' = (faulted \/ ~ok)
       /\ IF ok
         THEN /\ redis' = [redis EXCEPT ![op[r].room] = NoGroup]
              /\ Finish(r, "delete", op[r].room, "ok", NoGroup)
         ELSE /\ Finish(r, "delete", op[r].room, "false", NoGroup)
              /\ UNCHANGED redis
  /\ UNCHANGED <<mongo, groupsCreated, members, notGrp>>

\* addParticipant(client, groupId, participantAddress): canMessage,
\* findInboxIdByAddress, getConversationById
AddResolve(r, g, a) ==
  /\ op[r].pc = "idle"
  /\ g \in 1..groupsCreated
  /\ \E ok \in BOOLEAN :
       /\ faulted' = (faulted \/ ~ok)
       /\ IF ~ok
         THEN Finish(r, "add", None, "throw", g)
         ELSE IF a \notin Registered
           THEN Finish(r, "add", None, "false", g)
           ELSE /\ op' = [op EXCEPT ![r] = [kind |-> "add", pc |-> "addMembers", room |-> None,
                                            gid |-> g, inbox |-> InboxOf[a]]]
                /\ UNCHANGED lastRet
  /\ UNCHANGED <<mongo, redis, groupsCreated, members, notGrp>>

\* addMemberToGroup(client, groupId, memberInboxId): syncAll, find the group,
\* group.sync(), group.members(), the isMember test
MemberCheck(r, g, inbox) ==
  /\ op[r].pc = "idle"
  /\ g \in 1..groupsCreated
  /\ \E ok \in BOOLEAN :
       /\ faulted' = (faulted \/ ~ok)
       /\ IF ~ok
         THEN Finish(r, "addMember", None, "throw", g)
         ELSE IF inbox \in members[g]
           THEN Finish(r, "addMember", None, "ok", g)
           ELSE /\ op' = [op EXCEPT ![r] = [kind |-> "addMember", pc |-> "addMembers",
                                            room |-> None, gid |-> g, inbox |-> inbox]]
                /\ UNCHANGED lastRet
  /\ UNCHANGED <<mongo, redis, groupsCreated, members, notGrp>>

\* await conversation.addMembers([inboxId]) of addParticipant and of
\* addMemberToGroup; the network accepts it, or rejects it and the call throws
AddMembers(r) ==
  /\ op[r].pc = "addMembers"
  /\ \E ok \in BOOLEAN :
       /\ faulted' = (faulted \/ ~ok)
       /\ IF ok
         THEN /\ members' = [members EXCEPT ![op[r].gid] = @ \cup {op[r].inbox}]
              /\ Finish(r, op[r].kind, None, "ok", op[r].gid)
         ELSE /\ Finish(r, op[r].kind, None, "throw", op[r].gid)
              /\ UNCHANGED members
  /\ UNCHANGED <<mongo, redis, groupsCreated, notGrp>>

\* ------------------- addMembersWithAddresses and getInboxIdFromAddress
NoBatch == [addrs |-> {}, todo |-> {}, inboxIds |-> {}, existing |-> {},
            newInboxIds |-> {}, calls |-> 0, fault |-> FALSE]
InitBatch ==
  /\ batch = [r \in Reqs |-> NoBatch]
  /\ resolved = [address |-> None, outcome |-> None, ret |-> None]
  /\ lastBatch = [status |-> None, gid |-> NoGroup, addrs |-> {}, existing |-> {},
                 added |-> {}, calls |-> 0, fault |-> FALSE]

\* getInboxIdFromAddress(client, address): the inbox id; null (None) when the
\* network has none, and null from the catch block when the lookup throws
getInboxIdFromAddress(a, outcome) == IF outcome = "found" THEN InboxOf[a] ELSE None

\* no filter: every resolved inbox id
NewInboxIdsAll(inboxIds, existingInboxIds) == inboxIds

\* inboxIds.filter(id => !existingInboxIds.has(id))
NewInboxIds(inboxIds, existingInboxIds) == inboxIds \ existingInboxIds

\* the addMembersWithAddresses call of request r returns or throws
FinishBatch(r, g, status, b) ==
  /\ Finish(r, "addBatch", None, status, g)
  /\ batch' = [batch EXCEPT ![r] = NoBatch]
  /\ lastBatch' = [status |-> status, gid |-> g, addrs |-> b.addrs,
                   existing |-> b.existing, added |-> b.newInboxIds,
                   calls |-> b.calls, fault |-> b.fault]

\* addMembersWithAddresses(client, groupId, addresses): syncAll, sync, list,
\* find the group
BatchStart(r, g, addrs) ==
  /\ op[r].pc = "idle"
  /\ g \in 1..groupsCreated
  /\ addrs # {}
  /\ \E ok \in BOOLEAN :
       /\ faulted' = (faulted \/ ~ok)
       /\ IF ok
            THEN /\ op' = [op EXCEPT ![r] = [kind |-> "addBatch", pc |-> "resolve",
                                             room |-> None, gid |-> g, inbox |-> None]]
                 /\ batch' = [batch EXCEPT ![r] = [NoBatch EXCEPT !.addrs = addrs,
                                                                  !.todo = addrs]]
                 /\ UNCHANGED <<lastRet, lastBatch>>
            ELSE FinishBatch(r, g, "throw", [NoBatch EXCEPT !.addrs = addrs, !.fault = TRUE])
  /\ UNCHANGED <<mongo, redis, groupsCreated, members, resolved, walletVars,
                 webVars, mgrVars, keyVars, libVars>>

\* one turn of the loop: inboxId = await getInboxIdFromAddress(client, address);
\* behind the last address, the return when no inbox id was found
BatchResolve(r, a) ==
  /\ op[r].kind = "addBatch" /\ op[r].pc = "resolve"
  /\ a \in batch[r].todo
  /\ \E ok \in BOOLEAN :
       LET \* what fetchInboxIdByIdentifier (and canMessage) answers
           outcome == IF ~ok THEN "fails"
                      ELSE IF a \in Registered THEN "found" ELSE "unregistered"
           inboxId == getInboxIdFromAddress(a, outcome)
           b == [batch[r] EXCEPT !.todo = @ \ {a},
                                 !.inboxIds = IF inboxId # None THEN @ \cup {inboxId} ELSE @,
                                 !.fault = @ \/ ~ok]
       IN /\ faulted' = (faulted \/ ~ok)
          /\ resolved' = [address |-> a, outcome |-> outcome, ret |-> inboxId]
          /\ IF b.todo = {} /\ b.inboxIds = {}
               THEN FinishBatch(r, op[r].gid, "ok", b)
               ELSE /\ batch' = [batch EXCEPT ![r] = b]
                    /\ op' = [op EXCEPT ![r].pc = IF b.todo = {} THEN "check" ELSE "resolve"]
                    /\ UNCHANGED <<lastRet, lastBatch>>
  /\ UNCHANGED <<mongo, redis, groupsCreated, members, walletVars,
                 webVars, mgrVars, keyVars, libVars>>

\* group.sync(), group.members(), the filter; the return when every inbox id
\* is a member already
BatchCheck(r) ==
  /\ op[r].kind = "addBatch" /\ op[r].pc = "check"
  /\ \E ok \in BOOLEAN :
       LET existingInboxIds == members[op[r].gid]
           b == [batch[r] EXCEPT !.existing = existingInboxIds,
                                 !.newInboxIds = NewInboxIds(batch[r].inboxIds, existingInboxIds)]
       IN /\ faulted' = (faulted \/ ~ok)
          /\ IF ~ok
               THEN FinishBatch(r, op[r].gid, "throw", [batch[r] EXCEPT !.fault = TRUE])
               ELSE IF b.newInboxIds = {}
                 THEN FinishBatch(r, op[r].gid, "ok", b)
                 ELSE /\ batch' = [batch EXCEPT ![r] = b]
                      /\ op' = [op EXCEPT ![r].pc = "addMembersBatch"]
                      /\ UNCHANGED <<lastRet, lastBatch>>
  /\ UNCHANGED <<mongo, redis, groupsCreated, members, resolved, walletVars,
                 webVars, mgrVars, keyVars, libVars>>

\* await group.addMembers(newInboxIds), then sync and publishMessages
BatchAdd(r) ==
  /\ op[r].kind = "addBatch" /\ op[r].pc = "addMembersBatch"
  /\ \E ok \in BOOLEAN :
       LET b == [batch[r] EXCEPT !.calls = @ + 1, !.fault = @ \/ ~ok]
       IN /\ faulted' = (faulted \/ ~ok)
          /\ IF ok
               THEN /\ members' = [members EXCEPT ![op[r].gid] = @ \cup b.newInboxIds]
                    /\ FinishBatch(r, op[r].gid, "ok", b)
               ELSE /\ FinishBatch(r, op[r].gid, "throw", b)
                    /\ UNCHANGED members
  /\ UNCHANGED <<mongo, redis, groupsCreated, resolved, walletVars,
                 webVars, mgrVars, keyVars, libVars>>

\* ------------------------------------------- ensureXMTPKey (xmtp-helpers)
NoKey == 0


InitKey ==
  /\ userKey = [f \in Actors |-> NoKey]
  /\ doc = [r \in Reqs |-> [pc |-> "idle", fid |-> None, key |-> NoKey, ret |-> NoKey]]
  /\ keysGenerated = 0

\* POST /xmtp/init: const user = await User.findOne({ fid }), the request's
\* own copy of the document
FindUser(r, f) ==
  /\ doc[r].pc \in {"idle", "done", "failed"}
  /\ doc' = [doc EXCEPT ![r] = [pc |-> "loaded", fid |-> f, key |-> userKey[f], ret |-> NoKey]]
  /\ UNCHANGED <<userKey, keysGenerated, notKey>>

\* a test that takes every document for one without a key
HasKeyNever(key) == FALSE

\* the test of ensureXMTPKey: user.xmtpEncryptionKey is truthy
HasKey(key) == key # NoKey

\* ensureXMTPKey(user) up to its await: a document with a key returns it;
\* otherwise a key is generated, set on the document, and user.save() starts
EnsureXMTPKey(r) ==
  /\ doc[r].pc = "loaded"
  /\ IF HasKey(doc[r].key)
       THEN /\ doc' = [doc EXCEPT ![r] = [@ EXCEPT !.pc = "done", !.ret = doc[r].key]]
            /\ UNCHANGED keysGenerated
       ELSE /\ keysGenerated < MaxKeys
            /\ keysGenerated' = keysGenerated + 1
            /\ doc' = [doc EXCEPT ![r] = [@ EXCEPT !.pc = "saving", !.key = keysGenerated + 1]]
  /\ UNCHANGED <<userKey, notKey>>

\* await user.save() completes: the document's key is written to the stored
\* user and returned, or save rejects and ensureXMTPKey throws
SaveDone(r) ==
  /\ doc[r].pc = "saving"
  /\ \E ok \in BOOLEAN :
       IF ok
         THEN /\ userKey' = [userKey EXCEPT ![doc[r].fid] = doc[r].key]
              /\ doc' = [doc EXCEPT ![r] = [@ EXCEPT !.pc = "done", !.ret = doc[r].key]]
         ELSE /\ doc' = [doc EXCEPT ![r] = [@ EXCEPT !.pc = "failed"]]
              /\ UNCHANGED userKey
  /\ UNCHANGED <<keysGenerated, notKey>>

\* ------------------------------------------- XMTPGroupManager.getMessages
Min(a, b) == IF a < b THEN a ELSE b

Limits == 1..2                   \* limit arguments

\* a message with send timestamp t is on the network; where
\* conversation.messages() lists it is the network's choice
NetStore(t, k) ==
  /\ \A i \in 1..Len(netOrder) : netOrder[i] # t
  /\ k \in 1..(Len(netOrder) + 1)
  /\ netOrder' = SubSeq(netOrder, 1, k - 1) \o <<t>> \o SubSeq(netOrder, k, Len(netOrder))
  /\ UNCHANGED <<page, pageArgs, fmtVars, listVars, mentionVars, notLib>>

\* conversation.messages({ limit: n }): the first n messages of the listing
Messages(n) == SubSeq(netOrder, 1, Min(n, Len(netOrder)))

\* Array.prototype.reverse
Reverse(s) == [i \in 1..Len(s) |-> s[Len(s) + 1 - i]]

\* Array.prototype.slice(start, end)
Slice(s, start, end) ==
  IF start >= Min(end, Len(s)) THEN <<>> ELSE SubSeq(s, start + 1, Min(end, Len(s)))

\* getMessages(client, groupId, limit, offset)
getMessages(limit, offset) == Slice(Reverse(Messages(limit + offset)), offset, offset + limit)

\* a request calls getMessages
GetMessages(limit, offset) ==
  /\ page' = getMessages(limit, offset)
  /\ pageArgs' = [limit |-> limit, offset |-> offset]
  /\ UNCHANGED <<netOrder, fmtVars, listVars, mentionVars, notLib>>

\* ---------------------------------------------- messageHelpers (web utils)
\* A string is a sequence of characters. A message content that is a string
\* is [type "string", raw, parsed]: its characters and what JSON.parse makes
\* of them.
Text(n) == [i \in 1..n |-> "a"]

\* SenderMetadata / UserProfile; an empty field is a missing one, and the
\* record of empty fields is an undefined sender or a missing cache entry
NoSender == [username |-> "", displayName |-> "", pfp_url |-> "", fid |-> ""]

\* no replyTo / reply block (reference 0)
NoReply == [reference |-> 0, text |-> <<>>, username |-> "", pfp_url |-> "",
            senderInboxId |-> "", sender |-> NoSender]

\* JSON.parse throws, or gives a value without the members read here
NotJson == [text |-> <<>>, sender |-> NoSender, replyTo |-> NoReply, reply |-> NoReply]

\* createMessageContent(text, sender, mentions)
createMessageContent(text, sender) ==
  [text |-> text, sender |-> sender, replyTo |-> NoReply, reply |-> NoReply]

\* JSON.stringify(object): the characters (braces around the text member
\* stand for the whole JSON text) and the object JSON.parse gives back
Stringify(obj) ==
  [type |-> "string", raw |-> <<"{">> \o obj.text \o <<"}">>, parsed |-> obj,
   referenceId |-> 0]

\* a string content that is not JSON
PlainText(t) == [type |-> "string", raw |-> t, parsed |-> NotJson, referenceId |-> 0]

\* a ContentTypeReply content without inReplyTo: { content, referenceId }
NativeReply(inner, ref) ==
  [type |-> "reply", raw |-> inner.raw, parsed |-> inner.parsed, referenceId |-> ref]

\* the whole string
SubstringAll(t, n) == t

\* String.prototype.substring(0, n)
Substring(t, n) == SubSeq(t, 1, Min(n, Len(t)))

SnippetLen == 100

\* a || b on strings
OrElse(a, b) == IF a # "" THEN a ELSE b

\* a || b on texts
OrElseText(a, b) == IF a # <<>> THEN a ELSE b

\* getUserProfile(inboxId)
getUserProfile(inboxId) == IF inboxId \in DOMAIN profiles THEN profiles[inboxId] ELSE NoSender

\* Date.prototype.toISOString: seconds and milliseconds of the time value
toISOString(ms) == [secs |-> ms \div 1000, millis |-> ms % 1000]

\* new Date(iso).getTime()
getTime(iso) == iso.secs * 1000 + iso.millis

NoReplyTo == [messageId |-> 0, message |-> <<>>, username |-> "", pfp_url |-> ""]

\* the replyTo of a structured content: the embedded replyTo block, then the
\* legacy reply block, which overrides it
StructuredReplyTo(obj) ==
  IF obj.reply.reference # 0
    THEN LET replySender == IF obj.reply.sender # NoSender
                              THEN obj.reply.sender
                              ELSE getUserProfile(obj.reply.senderInboxId)
         IN [messageId |-> obj.reply.reference,
             message |-> obj.reply.text,
             username |-> OrElse(replySender.username, "Unknown"),
             pfp_url |-> replySender.pfp_url]
    ELSE IF obj.replyTo.reference # 0
      THEN [messageId |-> obj.replyTo.reference,
            message |-> OrElseText(Substring(obj.replyTo.text, SnippetLen),
                                  \* '[Referenced message]'
                                  <<"[", "R", "e", "f", "e", "r", "e", "n", "c", "e", "d", " ",
                                    "m", "e", "s", "s", "a", "g", "e", "]">>),
            username |-> OrElse(obj.replyTo.username, "Unknown"),
            pfp_url |-> obj.replyTo.pfp_url]
      ELSE NoReplyTo

\* the three branches of formatXMTPMessage: [messageText, senderMetadata, replyTo]
DecodeContent(content) ==
  IF content.type = "reply" /\ content.raw # <<>> /\ content.referenceId # 0
    THEN IF content.parsed = NotJson
           THEN [messageText |-> content.raw, sender |-> NoSender, replyTo |-> NoReplyTo]
           ELSE [messageText |-> OrElseText(content.parsed.text, content.raw),
                 sender |-> content.parsed.sender, replyTo |-> NoReplyTo]
    ELSE IF content.type = "string"
      THEN IF content.parsed # NotJson /\ content.parsed.text # <<>>
             THEN [messageText |-> content.parsed.text, sender |-> content.parsed.sender,
                   replyTo |-> StructuredReplyTo(content.parsed)]
             ELSE [messageText |-> content.raw, sender |-> NoSender, replyTo |-> NoReplyTo]
      ELSE IF content.type = "object" /\ content.parsed.text # <<>>
        THEN [messageText |-> content.parsed.text, sender |-> content.parsed.sender,
              replyTo |-> StructuredReplyTo(content.parsed)]
        ELSE [messageText |-> <<>>, sender |-> NoSender, replyTo |-> NoReplyTo]

\* a formatter that never looks into the payload for the sender
SenderPriorityCacheOnly(senderMetadata, userProfile, senderInboxId) ==
  [userId |-> OrElse(userProfile.fid, senderInboxId),
   username |-> OrElse(userProfile.username, "Unknown"),
   displayName |-> OrElse(userProfile.displayName, OrElse(userProfile.username, "Unknown")),
   pfp_url |-> userProfile.pfp_url]

\* "Priority: embedded metadata > cache > fallback"
SenderPriority(senderMetadata, userProfile, senderInboxId) ==
  LET username == OrElse(senderMetadata.username, OrElse(userProfile.username, "Unknown"))
  IN [userId |-> OrElse(senderMetadata.fid, OrElse(userProfile.fid, senderInboxId)),
      username |-> username,
      displayName |-> OrElse(senderMetadata.displayName, OrElse(userProfile.displayName, username)),
      pfp_url |-> OrElse(senderMetadata.pfp_url, userProfile.pfp_url)]

\* formatXMTPMessage(xmtpMsg)
formatXMTPMessage(xmtpMsg) ==
  LET d == DecodeContent(xmtpMsg.content)
      who == SenderPriority(d.sender, getUserProfile(xmtpMsg.senderInboxId),
                            xmtpMsg.senderInboxId)
  IN [id |-> xmtpMsg.id,
      userId |-> who.userId,
      username |-> who.username,
      displayName |-> who.displayName,
      pfp_url |-> who.pfp_url,
      message |-> d.messageText,
      timestamp |-> toISOString(xmtpMsg.sentAt),
      replyTo |-> d.replyTo]

\* Array.prototype.sort((a, b) => time(a) - time(b)), a stable sort: each
\* element goes behind the elements that are not later than it
RECURSIVE SortByTimestamp(_)
SortByTimestamp(fs) ==
  IF fs = <<>> THEN <<>>
  ELSE LET rest == SortByTimestamp(SubSeq(fs, 1, Len(fs) - 1))
           x == fs[Len(fs)]
           k == Cardinality({i \in 1..Len(rest) :
                               getTime(rest[i].timestamp) - getTime(x.timestamp) <= 0})
       IN SubSeq(rest, 1, k) \o <<x>> \o SubSeq(rest, k + 1, Len(rest))

\* map without the sort
formatXMTPMessagesUnsorted(ms) == [i \in 1..Len(ms) |-> formatXMTPMessage(ms[i])]

\* formatXMTPMessages(messages)
formatXMTPMessages(ms) == SortByTimestamp([i \in 1..Len(ms) |-> formatXMTPMessage(ms[i])])

Inboxes == {"ix1", "ix2"}
Alice == [username |-> "alice", displayName |-> "Alice", pfp_url |-> "a.png", fid |-> "11"]
Bob == [username |-> "bob", displayName |-> "", pfp_url |-> "", fid |-> ""]
Carol == [username |-> "carol", displayName |-> "Carol", pfp_url |-> "c.png", fid |-> "33"]
Hi == <<"h", "i">>

NoWire == [id |-> 0, senderInboxId |-> "", content |-> PlainText(<<>>), sentAt |-> 0]

\* registerUserProfile(inboxId, profile)
registerUserProfile(inboxId, profile) ==
  /\ profiles[inboxId] # profile
  /\ profiles' = [profiles EXCEPT ![inboxId] = profile]
  /\ UNCHANGED <<wire, decoded, lastSend, pageVars, listVars, mentionVars, notLib>>

\* clearUserProfiles()
clearUserProfiles ==
  /\ \E i \in Inboxes : profiles[i] # NoSender
  /\ profiles' = [i \in Inboxes |-> NoSender]
  /\ UNCHANGED <<wire, decoded, lastSend, pageVars, listVars, mentionVars, notLib>>

\* the message with this content reaches the list and is formatted
Deliver(from, content, send) ==
  /\ wire.id < MaxSends
  /\ LET m == [id |-> wire.id + 1, senderInboxId |-> from, content |-> content,
               sentAt |-> 1000]
     IN /\ wire' = m
        /\ decoded' = formatXMTPMessage(m)
  /\ lastSend' = send
  /\ UNCHANGED <<profiles, pageVars, listVars, mentionVars, notLib>>

\* sendMessage(text, sender): sendText(JSON.stringify(createMessageContent(...)))
SendMessage(from, text, sender) ==
  Deliver(from, Stringify(createMessageContent(text, sender)),
          [op |-> "sendMessage", text |-> text, ref |-> 0, refText |-> <<>>])

\* sendReply(text, referenceMessage, sender), the reference being the message
\* formatted last
SendReply(from, text, sender) ==
  /\ decoded.id # 0
  /\ Deliver(from,
             Stringify([createMessageContent(text, sender) EXCEPT
                          !.replyTo = [reference |-> decoded.id,
                                       senderInboxId |-> decoded.userId,
                                       text |-> decoded.message,
                                       username |-> decoded.username,
                                       pfp_url |-> decoded.pfp_url,
                                       sender |-> NoSender]]),
             [op |-> "sendReply", text |-> text, ref |-> decoded.id,
              refText |-> decoded.message])

\* a message of another client arrives
Receive(from, content) ==
  Deliver(from, content, [op |-> "receive", text |-> <<>>, ref |-> 0, refText |-> <<>>])

\* a message reaches the list of XMTPProvider; Chat formats the list
Arrive(id, ts) ==
  /\ Len(held) < MaxHeld
  /\ \A i \in 1..Len(held) : held[i].id # id
  /\ LET ms == Append(held, [id |-> id, senderInboxId |-> "ix1",
                             content |-> PlainText(Hi), sentAt |-> ts])
     IN /\ held' = ms
        /\ shown' = formatXMTPMessages(ms)
  /\ UNCHANGED <<pageVars, fmtVars, mentionVars, notLib>>

\* leaveGroup: setMessages([])
ClearList ==
  /\ held # <<>>
  /\ held' = <<>>
  /\ shown' = formatXMTPMessages(<<>>)
  /\ UNCHANGED <<pageVars, fmtVars, mentionVars, notLib>>

\* ------------------------------------------------- mentions (web utils)
\* \w
WordChar(c) == c \in {"a", "A"}

\* String.prototype.toLowerCase
toLowerCase(s) == [i \in 1..Len(s) |-> IF s[i] = "A" THEN "a" ELSE s[i]]

\* String.prototype.trim
Trim(s) ==
  LET solid == {i \in 1..Len(s) : s[i] # " "}
  IN IF solid = {} THEN <<>>
     ELSE SubSeq(s, CHOOSE i \in solid : \A j \in solid : i <= j,
                    CHOOSE i \in solid : \A j \in solid : j <= i)

\* the same pattern without \B
MatchesAtAnywhere(text, i) ==
  /\ i + 2 <= Len(text)
  /\ text[i + 1] = "@"
  /\ WordChar(text[i + 2])

\* MENTION_REGEX = /\B@([\w][\w.-]*)/ matches at index i (counted from 0):
\* '@' is not a word character, so \B holds at the start of the text and
\* behind a character that is not a word character either
MatchesAt(text, i) ==
  /\ i + 2 <= Len(text)
  /\ text[i + 1] = "@"
  /\ (i = 0 \/ ~WordChar(text[i]))
  /\ WordChar(text[i + 2])

\* where the greedy match that starts at index i ends (index behind its last
\* character, counted from 0)
MatchEnd(text, i) ==
  CHOOSE e \in (i + 2)..Len(text) :
    /\ \A k \in (i + 2)..e : WordChar(text[k]) \/ text[k] = "."
    /\ (e = Len(text) \/ ~(WordChar(text[e + 1]) \/ text[e + 1] = "."))

\* users?.find(u => u.username.toLowerCase() === username.toLowerCase()):
\* the position of the first such user, 0 when there is none
find(users, username) ==
  LET hits == {k \in 1..Len(users) :
                 toLowerCase(users[k].username) = toLowerCase(username)}
  IN IF hits = {} THEN 0 ELSE CHOOSE k \in hits : \A j \in hits : k <= j

\* the while loop of extractMentions: MENTION_REGEX.exec(text) from lastIndex
RECURSIVE exec(_, _, _)
exec(text, users, lastIndex) ==
  LET starts == {i \in lastIndex..(Len(text) - 1) : MatchesAt(text, i)}
  IN IF starts = {} THEN <<>>
     ELSE LET index == CHOOSE i \in starts : \A j \in starts : i <= j
              end == MatchEnd(text, index)
              username == SubSeq(text, index + 2, end)
              user == find(users, username)
              rest == exec(text, users, end)
          IN IF user # 0
               THEN <<[inboxId |-> users[user].inboxId,
                       username |-> users[user].username,
                       displayName |-> users[user].displayName,
                       fid |-> users[user].fid,
                       startIndex |-> index,
                       length |-> end - index]>> \o rest
               ELSE rest

\* extractMentions(text, users)
extractMentions(text, users) == exec(text, users, 0)

\* values of mentionableUsers: the user 'a', and before it a user whose
\* username has an upper-case letter and a dot
Mentionables ==
  LET MentionAlice == [inboxId |-> "ix1", username |-> <<"a">>,
                       displayName |-> "Alice", fid |-> "11"]
      MentionDot == [inboxId |-> "ix2", username |-> <<"A", ".", "a">>,
                     displayName |-> "Dot", fid |-> "22"]
  IN {<<>>, <<MentionAlice>>, <<MentionDot, MentionAlice>>}

\* no message on the network, in the cache, in the list or in the input box
InitLib ==
  /\ netOrder = <<>>
  /\ page = <<>>
  /\ pageArgs = [limit |-> 0, offset |-> 0]
  /\ profiles = [i \in Inboxes |-> NoSender]
  /\ wire = NoWire
  /\ decoded = formatXMTPMessage(NoWire)
  /\ lastSend = [op |-> "none", text |-> <<>>, ref |-> 0, refText |-> <<>>]
  /\ held = <<>>
  /\ shown = <<>>
  /\ typed = <<>>
  /\ mentionableUsers = <<>>
  /\ messageText = <<>>
  /\ mentions = <<>>

\* a character is typed into the input box
Type(c) ==
  /\ Len(typed) < MaxLen
  /\ typed' = Append(typed, c)
  /\ messageText' = <<>>
  /\ mentions' = <<>>
  /\ UNCHANGED <<mentionableUsers, pageVars, fmtVars, listVars, notLib>>

\* setMentionableUsers(users)
SetMentionableUsers(users) ==
  /\ mentionableUsers # users
  /\ mentionableUsers' = users
  /\ messageText' = <<>>
  /\ mentions' = <<>>
  /\ UNCHANGED <<typed, pageVars, fmtVars, listVars, notLib>>

\* handleSendMessage, up to the extraction of the mentions
HandleSendMessage ==
  /\ Trim(typed) # <<>>
  /\ messageText' = Trim(typed)
  /\ typed' = <<>>
  /\ mentions' = extractMentions(Trim(typed), mentionableUsers)
  /\ UNCHANGED <<mentionableUsers, pageVars, fmtVars, listVars, notLib>>

\* ------------------------------------------------------- specifications

JoinSyncStep(c) == JoinSync(c) /\ UNCHANGED <<syncAttempts, notWeb>>

InvalidateStep(userFid) == Invalidate(userFid) /\ UNCHANGED invalidated

TrackedInvalidate(userFid) ==
  /\ Invalidate(userFid)
  /\ invalidated' = invalidated \cup ClientsOf(userFid)

CountedJoinSync(c) ==
  /\ JoinSync(c)
  /\ syncAttempts' = Min(syncAttempts + 1, MaxSyncCount)
  /\ UNCHANGED notWeb

vars == <<walletVars, webVars, mgrVars, grpVars, keyVars, libVars, batchVars>>

Init == InitWeb /\ InitMgr /\ InitGrp /\ InitKey /\ InitLib /\ InitBatch

\* XMTPProvider under any sequence of joinGroup and leaveGroup calls
Next ==
  \/ InitializeClient
  \/ \E a \in Apps, g \in Groups : AppJoin(a, g)
  \/ leaveGroup
  \/ \E c \in Callers : JoinSyncStep(c)
  \/ \E c \in Callers : JoinAttach(c)
  \/ \E c \in Callers : JoinHistory(c)
  \/ \E c \in Callers : JoinStream(c)
  \/ \E g \in Groups : NetSend(g)
  \/ \E g \in Groups : NetAddMember(g)
  \/ \E g \in Groups, i \in 1..MaxMsgs : StreamDeliver(g, i)

Spec == Init /\ [][Next]_vars

\* XMTPProvider while the wallet connects, disconnects and switches accounts
NextWallet ==
  \/ \E a \in Addrs : WalletConnect(a)
  \/ WalletDisconnect
  \/ \E a \in Addrs : WalletSwitch(a)
  \/ InitializeClient
  \/ \E a \in Apps, g \in Groups : AppJoin(a, g)
  \/ leaveGroup
  \/ \E c \in Callers : JoinSyncStep(c)
  \/ \E c \in Callers : JoinAttach(c)
  \/ \E c \in Callers : JoinHistory(c)
  \/ \E c \in Callers : JoinStream(c)
  \/ \E g \in Groups : NetAddMember(g)

SpecWallet == Init /\ [][NextWallet]_vars

\* the join protocol alone, for a participant whom nobody adds to a group
NextJoin ==
  \/ OpenChat
  \/ SetupStart
  \/ SetupInitDone
  \/ SetupInfo
  \/ \E c \in Callers : CountedJoinSync(c)
  \/ \E k \in Chains : RetryFire(k)

SpecJoin == Init /\ [][NextJoin]_vars

\* the session cache of the backend under concurrent requests
NextClient ==
  \/ \E d \in {1799000, 1801000} : Tick(d)
  \/ \E r \in Reqs, f \in Actors : GetOrCreateClient(r, f)
  \/ \E r \in Reqs : CreateClientDone(r)
  \/ \E f \in Actors : InvalidateStep(f)
  \/ cleanup
  \/ \E f \in Actors : GetClient(f)

SpecClient == Init /\ [][NextClient]_vars

\* the session cache within one session lifetime (no session expires), with
\* the history of the invalidated clients
NextInvalidate ==
  \/ \E r \in Reqs, f \in Actors : GetOrCreateClient(r, f)
  \/ \E r \in Reqs : CreateClientDone(r)
  \/ \E f \in Actors : TrackedInvalidate(f)

SpecInvalidate == Init /\ [][NextInvalidate]_vars

\* the group manager and its two stores under concurrent requests
NextGroup ==
  \/ \E room \in Rooms : RedisExpire(room)
  \/ \E r \in Reqs, room \in Rooms, addrs \in {{}} \cup {{a} : a \in Addrs} :
       CreateNewGroup(r, room, addrs)
  \/ \E r \in Reqs : CreateMongo(r)
  \/ \E r \in Reqs : CreateRedis(r)
  \/ \E r \in Reqs, room \in Rooms : GetRedis(r, room)
  \/ \E r \in Reqs : GetMongo(r)
  \/ \E r \in Reqs : GetRedisSet(r)
  \/ \E r \in Reqs, room \in Rooms : DeleteMongo(r, room)
  \/ \E r \in Reqs : DeleteRedis(r)
  \/ \E r \in Reqs, g \in GroupIds, a \in Addrs : AddResolve(r, g, a)
  \/ \E r \in Reqs, g \in GroupIds, a \in Addrs : MemberCheck(r, g, InboxOf[a])
  \/ \E r \in Reqs : AddMembers(r)

SpecGroup == Init /\ [][NextGroup]_vars

\* POST /xmtp/init requests up to the return of ensureXMTPKey
NextKey ==
  \/ \E r \in Reqs, f \in Actors : FindUser(r, f)
  \/ \E r \in Reqs : EnsureXMTPKey(r)
  \/ \E r \in Reqs : SaveDone(r)

SpecKey == Init /\ [][NextKey]_vars

\* getMessages over every listing order of the network
NextPages ==
  \/ \E t \in 1..MaxTs, k \in 1..MaxTs : NetStore(t, k)
  \/ \E limit \in Limits, offset \in 0..4 : GetMessages(limit, offset)

SpecPages == Init /\ [][NextPages]_vars

\* formatXMTPMessage on what sendMessage, sendReply and other clients send
NextFormat ==
  \/ \E i \in Inboxes : registerUserProfile(i, Carol)
  \/ clearUserProfiles
  \/ \E from \in Inboxes, text \in {Hi, Text(SnippetLen), Text(SnippetLen + 1)},
        sender \in {Alice, Bob, NoSender} : SendMessage(from, text, sender)
  \/ \E sender \in {Alice, Bob, NoSender} : SendReply("ix1", Hi, sender)
  \/ \* contents written by other clients: plain text, an object without a text,
     \* a native reply, a payload with a legacy reply block
     \E from \in Inboxes, content \in
       { PlainText(Hi),
         [type |-> "object", raw |-> <<>>, parsed |-> createMessageContent(<<>>, NoSender),
          referenceId |-> 0],
         NativeReply(PlainText(Hi), 1),
         NativeReply(Stringify(createMessageContent(Hi, Alice)), 1),
         Stringify([createMessageContent(Hi, Bob) EXCEPT
                      !.reply = [NoReply EXCEPT !.reference = 1, !.text = Hi,
                                                !.senderInboxId = "ix2"]]) } :
       Receive(from, content)

SpecFormat == Init /\ [][NextFormat]_vars

\* the list of the chat under arrivals in any timestamp order
NextDisplay ==
  \/ \E id \in 1..MaxHeld, ts \in {999, 1000, 2001} : Arrive(id, ts)
  \/ ClearList

SpecDisplay == Init /\ [][NextDisplay]_vars

\* extractMentions on what is typed and sent
NextMentions ==
  \/ \E c \in {"@", "a", "A", ".", " "} : Type(c)
  \/ \E users \in Mentionables : SetMentionableUsers(users)
  \/ HandleSendMessage

SpecMentions == Init /\ [][NextMentions]_vars

\* a room whose group was created by createRoomGroup, with no participant or
\* with the registered one
InitRoomGroup ==
  /\ InitWeb /\ InitMgr /\ InitKey /\ InitLib /\ InitBatch
  /\ groupsCreated = 1
  /\ \E addrs \in {{}, Registered} :
       members = [g \in GroupIds |-> IF g = 1 THEN {InboxOf[a] : a \in addrs} ELSE {}]
  /\ mongo = [room \in Rooms |-> 1]
  /\ redis = [room \in Rooms |-> 1]
  /\ faulted = FALSE
  /\ op = [r \in Reqs |-> Idle]
  /\ lastRet = [kind |-> "create", room |-> "r1", status |-> "ok", gid |-> 1]

\* addMembersWithAddresses calls of concurrent requests on that group
NextBatch ==
  \/ \E r \in Reqs, g \in GroupIds, addrs \in SUBSET Addrs : BatchStart(r, g, addrs)
  \/ \E r \in Reqs, a \in Addrs : BatchResolve(r, a)
  \/ \E r \in Reqs : BatchCheck(r)
  \/ \E r \in Reqs : BatchAdd(r)

SpecBatch == InitRoomGroup /\ [][NextBatch]_vars

\* ------------------------------------------------------------------ claims

\* C1: when the group never becomes visible, the join protocol (every run of
\* the setupXMTPChat effect included) makes only a bounded number of sync
\* attempts, the budget of one run: maxRetries * (1 + chatMaxRetries).
C1_BoundedSyncAttempts ==
  (\A g \in Groups : ~visible[g]) => syncAttempts <= maxRetries * (1 + chatMaxRetries)

\* C2: the message list never holds two entries with the same message id.
C2_NoDuplicateIds ==
  \A i, j \in 1..Len(messages) : messages[i].id = messages[j].id => i = j

\* the handler was fed an id that is already in the list, and skipped it
C2_Witness == lastOp = "deliver_dup" /\ Len(messages) >= 1

\* C3: every message appended by the live stream belongs to the conversation
\* of the currently attached group.
C3_StreamedMatchAttached ==
  \A k \in 1..Len(messages) :
    messages[k].via = "stream" => netMsgs[messages[k].id] = currentGroup

\* C4: after leaveGroup (with no joinGroup in flight or started since) the
\* current group is null and the message list stays empty.
C4_LeaveStopsStream == leftClean => (currentGroup = None /\ messages = <<>>)

\* C5: a session created at T0 and not accessed since is returned unchanged,
\* without a construction, by a getOrCreateClient at T with T - T0 < 3600 s;
\* at T - T0 >= 3600 s the call constructs a new client object.
C5_SessionTTL ==
  [][\A r \in Reqs, f \in Actors :
       (/\ GetOrCreateClient(r, f)
        /\ clients[f] # Absent
        /\ clientTimestamps[f] = createdAt[f])
       => IF now - createdAt[f] < 3600 * 1000
            THEN /\ call'[r].pc = "done"
                 /\ call'[r].ret = clients[f]
                 /\ created' = created
                 /\ clients' = clients
            ELSE /\ call'[r].pc = "creating"
                 /\ created' = created + 1
                 /\ call'[r].ret \notin 0..created]_vars

\* one session was hit 1799 s after its creation, and a call for another one,
\* 3600 s or more after its creation, is constructing a new client
C5_Witness ==
  \E f1, f2 \in Actors, r \in Reqs :
    /\ clients[f1] # Absent
    /\ clientTimestamps[f1] = createdAt[f1] + 1799000
    /\ call[r].pc = "creating" /\ call[r].fid = f2
    /\ clients[f2] # Absent
    /\ clientTimestamps[f2] = createdAt[f2]
    /\ now - createdAt[f2] >= 3600 * 1000

\* C6: overlapping getOrCreateClient calls for one actor enter the client
\* construction at most once: no two constructions for the same actor are
\* in progress at the same time.
C6_SingleConstruction ==
  \A f \in Actors :
    Cardinality({r \in Reqs : call[r].pc = "creating" /\ call[r].fid = f}) <= 1

\* C7: adding an address whose inbox is already a member of the group is a
\* no-op that reports success: the network add-members call is not issued
\* again and the member set stays as it was.
C7_IdempotentAdd ==
  [][\A r \in Reqs :
       (AddMembers(r) /\ op[r].kind = "add") => op[r].inbox \notin members[op[r].gid]]_vars

\* C8: when createRoomGroup fails, the group id it created is in both stores
\* or in neither of them.
C8_NoHalfPersisted ==
  [][\A r \in Reqs :
       (/\ op[r].kind = "create"
        /\ op'[r].pc = "idle"
        /\ lastRet'.status = "throw"
        /\ op[r].gid # NoGroup)
       => ((mongo'[op[r].room] = op[r].gid) <=> (redis'[op[r].room] = op[r].gid))]_vars

\* C9: once no call is in progress (no store access having failed), a group
\* id held by the fast cache is the one held by the durable store.
C9_CacheAgreesWithStore ==
  ((\A r \in Reqs : op[r].pc = "idle") /\ ~faulted)
  => \A room \in Rooms : redis[room] # NoGroup => mongo[room] = redis[room]

\* C10: a group id stored for a room is never replaced by a different one.
C10_GroupIdImmutable ==
  [][\A room \in Rooms :
       /\ (mongo[room] # NoGroup /\ mongo'[room] # NoGroup) => mongo'[room] = mongo[room]
       /\ (redis[room] # NoGroup /\ redis'[room] # NoGroup) => redis'[room] = redis[room]]_vars

\* C11: getGroupId is cache-first and self-healing (no store access having
\* failed): a cache hit returns the cached id and reads nothing else; on a
\* miss the durable store is read, a durable hit is written into the cache
\* and returned, and with neither store holding an id the call returns none
\* and writes nothing.
C11_CacheFirstSelfHealing ==
  [][\A r \in Reqs :
       /\ \A room \in Rooms :
            (GetRedis(r, room) /\ ~faulted')
            => /\ UNCHANGED <<mongo, redis>>
               /\ IF redis[room] # NoGroup
                    THEN /\ op'[r].pc = "idle"
                         /\ lastRet' = [kind |-> "get", room |-> room,
                                        status |-> "ok", gid |-> redis[room]]
                    ELSE /\ op'[r].pc = "mongo"
                         /\ lastRet' = lastRet
       /\ (GetMongo(r) /\ ~faulted')
            => /\ UNCHANGED <<mongo, redis>>
               /\ IF mongo[op[r].room] # NoGroup
                    THEN /\ op'[r].pc = "redis"
                         /\ op'[r].gid = mongo[op[r].room]
                         /\ lastRet' = lastRet
                    ELSE /\ op'[r].pc = "idle"
                         /\ lastRet' = [kind |-> "get", room |-> op[r].room,
                                        status |-> "null", gid |-> NoGroup]
       /\ (GetRedisSet(r) /\ ~faulted')
            => /\ mongo' = mongo
               /\ redis' = [redis EXCEPT ![op[r].room] = op[r].gid]
               /\ op'[r].pc = "idle"
               /\ lastRet' = [kind |-> "get", room |-> op[r].room,
                              status |-> "ok", gid |-> op[r].gid]]_vars

\* a getGroupId has missed the cache, found the id in the durable store and is
\* about to write it into the cache
C11_Witness ==
  \E r \in Reqs :
    /\ ~faulted
    /\ op[r].kind = "get" /\ op[r].pc = "redis"
    /\ op[r].gid # NoGroup
    /\ mongo[op[r].room] = op[r].gid
    /\ redis[op[r].room] = NoGroup

\* C12: when the deletion of a room's group returns and the endpoint answers
\* with a success, neither store holds a group id for the room.
C12_DeleteClearsBothStores ==
  [][\A r \in Reqs :
       (/\ (DeleteRedis(r) \/ \E room \in Rooms : DeleteMongo(r, room))
        /\ op'[r].pc = "idle"
        /\ DeleteResponse(lastRet'.status = "ok") = "success")
       => /\ mongo'[lastRet'.room] = NoGroup
          /\ redis'[lastRet'.room] = NoGroup]_vars

\* C13: ensureXMTPKey is idempotent for calls in sequence: a document loaded
\* from the stored user carries the persisted key; a call on a document with a
\* key returns that key, generates nothing and saves nothing; a key is
\* generated only for a document without one, and the call that saves it
\* returns the key it persisted.
C13_EnsureKeyIdempotent ==
  [][\A r \in Reqs :
       /\ \A f \in Actors : FindUser(r, f) => doc'[r].key = userKey[f]
       /\ (EnsureXMTPKey(r) /\ doc[r].key # NoKey)
            => /\ doc'[r].pc = "done"
               /\ doc'[r].ret = doc[r].key
               /\ userKey' = userKey
               /\ keysGenerated' = keysGenerated
       /\ (EnsureXMTPKey(r) /\ keysGenerated' # keysGenerated) => doc[r].key = NoKey
       /\ (SaveDone(r) /\ doc'[r].pc = "done")
            => /\ doc'[r].ret = userKey'[doc[r].fid]
               /\ doc'[r].ret = doc[r].key]_vars

\* two calls for one user have returned the same key, the only one generated,
\* and it is the persisted one
C13_Witness ==
  \E f \in Actors :
    /\ keysGenerated = 1
    /\ userKey[f] = 1
    /\ \A r \in Reqs : doc[r].pc = "done" /\ doc[r].fid = f /\ doc[r].ret = 1

\* C14: a key that has been saved for a user is never replaced by another
\* generated key.
C14_SavedKeyNeverReplaced ==
  [][\A f \in Actors : userKey[f] # NoKey => userKey'[f] = userKey[f]]_vars

\* C15: a getOrCreateClient that returns from the cache never returns a client
\* that existed for its actor (cached or under construction) when removeClient
\* was called for that actor.
C15_InvalidatedNeverReturned ==
  [][\A r \in Reqs, f \in Actors :
       (GetOrCreateClient(r, f) /\ call'[r].pc = "done")
       => call'[r].ret \notin invalidated]_vars

\* C16: when the construction of a client fails, the call fails, no client
\* and no timestamp is added or changed, and an actor without an entry still
\* has none, so that getClient returns nothing for it.
C16_FailureLeavesCacheAbsent ==
  [][\A r \in Reqs :
       (call[r].pc = "creating" /\ call'[r].pc = "failed")
       => /\ clients' = clients
          /\ clientTimestamps' = clientTimestamps
          /\ clients[call[r].fid] = Absent
               => /\ clients'[call[r].fid] = Absent
                  /\ clientTimestamps'[call[r].fid] = Absent
                  /\ getClient(call[r].fid)' = Absent]_vars

\* a construction has failed for an actor without an entry, and the getClient
\* that followed returned nothing
C16_Witness ==
  \E r \in Reqs :
    /\ call[r].pc = "failed"
    /\ clients[call[r].fid] = Absent
    /\ clientTimestamps[call[r].fid] = Absent
    /\ mgrOp = [op |-> "getClient", fid |-> call[r].fid, ret |-> Absent]

\* C17: getClient returns the cached client exactly when the actor has a
\* session whose age is below 3600 s, and nothing otherwise; it constructs no
\* client and leaves the cache and the running calls as they are.
C17_PeekReadOnly ==
  [][\A f \in Actors :
       (mgrOp'.op = "getClient" /\ mgrOp'.fid = f)
       => /\ mgrOp'.ret = IF /\ clients[f] # Absent
                             /\ clientTimestamps[f] # Absent
                             /\ now - clientTimestamps[f] < 3600 * 1000
                            THEN clients[f]
                            ELSE Absent
          /\ UNCHANGED <<clients, clientTimestamps, created, call, now>>]_vars

\* getClient has returned nothing for a session that is cached and 3600 s old
\* or older
C17_Witness ==
  /\ mgrOp.op = "getClient"
  /\ mgrOp.ret = Absent
  /\ clients[mgrOp.fid] # Absent
  /\ now - clientTimestamps[mgrOp.fid] >= 3600 * 1000

\* C18: a getOrCreateClient that finds a session younger than 3600 s returns
\* it, constructs nothing and sets the session's timestamp to the time of the
\* call.
C18_HitRefreshesTimestamp ==
  [][\A r \in Reqs, f \in Actors :
       (/\ GetOrCreateClient(r, f)
        /\ clients[f] # Absent
        /\ clientTimestamps[f] # Absent
        /\ now - clientTimestamps[f] < 3600 * 1000)
       => /\ call'[r] = [pc |-> "done", fid |-> f, ret |-> clients[f]]
          /\ clientTimestamps'[f] = now
          /\ clients' = clients
          /\ created' = created]_vars

\* a session stored 3600 s ago or earlier has just been hit and returned: the
\* hits in between, less than 3600 s apart, kept it alive
C18_Witness ==
  \E r \in Reqs, f \in Actors :
    /\ clients[f] # Absent
    /\ clientTimestamps[f] = now
    /\ now - createdAt[f] >= 3600 * 1000
    /\ call[r] = [pc |-> "done", fid |-> f, ret |-> clients[f]]

\* C19: cleanup removes from both maps exactly the sessions whose age is
\* 3600 s or more and leaves every other entry as it was; after it no cached
\* session is 3600 s old or older.
C19_CleanupEvictsExpired ==
  [][mgrOp'.op = "cleanup"
     => /\ \A f \in Actors :
             IF clientTimestamps[f] # Absent /\ now - clientTimestamps[f] >= 3600 * 1000
               THEN clients'[f] = Absent /\ clientTimestamps'[f] = Absent
               ELSE clients'[f] = clients[f] /\ clientTimestamps'[f] = clientTimestamps[f]
        /\ \A f \in Actors :
             (clients'[f] # Absent \/ clientTimestamps'[f] # Absent)
             => now' - clientTimestamps'[f] < 3600 * 1000]_vars

\* a cleanup has removed a session and kept another one
C19_Witness ==
  /\ mgrOp.op = "cleanup"
  /\ mgrOp.ret >= 1
  /\ \E f \in Actors : clients[f] # Absent /\ clientTimestamps[f] # Absent

\* C20: a joinGroup call that passes the client guard runs with a client that
\* was created for the wallet address connected at that moment.
C20_JoinUsesCurrentWalletClient ==
  [][\A a \in Apps, g \in Groups :
       (AppJoin(a, g) /\ join'[a].pc = "sync") => client = address]_vars

\* C21: what getMessages returns is ordered by send timestamp ascending.
C21_PageChronological ==
  \A i, j \in 1..Len(page) : i < j => page[i] < page[j]

\* C23: for every page size, the pages at offsets 0, limit, 2*limit, ... are
\* pairwise disjoint and together hold every message of the group.
C23_PagesPartition ==
  \A limit \in Limits :
    LET Page(n) == {getMessages(limit, n * limit)[i] :
                      i \in 1..Len(getMessages(limit, n * limit))}
    IN /\ \A m, n \in 0..MaxTs : m # n => Page(m) \cap Page(n) = {}
       /\ UNION {Page(n) : n \in 0..MaxTs} = {netOrder[i] : i \in 1..Len(netOrder)}

\* C22: the list shown in the chat holds exactly the formatted messages of the
\* provider's list (same ids, same multiplicity), ordered by send timestamp
\* ascending.
C22_ShownSortedByTimestamp ==
  /\ Len(shown) = Len(held)
  /\ \A i, j \in 1..Len(shown) :
       i < j => shown[i].timestamp.secs * 1000 + shown[i].timestamp.millis
                  <= shown[j].timestamp.secs * 1000 + shown[j].timestamp.millis
  /\ \A id \in 1..(MaxHeld + 1) :
       Cardinality({i \in 1..Len(shown) : shown[i].id = id})
         = Cardinality({i \in 1..Len(held) : held[i].id = id})
  /\ \A i \in 1..Len(shown) : \E j \in 1..Len(held) :
       /\ shown[i].id = held[j].id
       /\ shown[i].timestamp.secs * 1000 + shown[i].timestamp.millis = held[j].sentAt
       /\ shown[i].message = held[j].content.raw

\* three messages that arrived out of timestamp order are shown
C22_Witness ==
  /\ Len(held) >= 3
  /\ Len(shown) = Len(held)
  /\ \E i, j \in 1..Len(held) : i < j /\ held[i].sentAt > held[j].sentAt

\* C24: after a sendReply that references a message M1 with non-empty text,
\* the decoded message has replyTo.messageId = M1's id and replyTo.message =
\* the first 100 characters at most of M1's text, which is not empty.
C24_ReplyRoundTrip ==
  (lastSend.op = "sendReply" /\ lastSend.refText # <<>>)
  => /\ decoded.replyTo.messageId = lastSend.ref
     /\ decoded.replyTo.message # <<>>
     /\ Len(decoded.replyTo.message) <= 100
     /\ Len(decoded.replyTo.message) <= Len(lastSend.refText)
     /\ \A i \in 1..Len(decoded.replyTo.message) :
          decoded.replyTo.message[i] = lastSend.refText[i]
     /\ (Len(lastSend.refText) <= 100
           => Len(decoded.replyTo.message) = Len(lastSend.refText))
     /\ (Len(lastSend.refText) > 100 => Len(decoded.replyTo.message) = 100)
     /\ decoded.message = lastSend.text

\* a reply to a message of 101 characters was decoded with a snippet of 100
C24_Witness ==
  /\ lastSend.op = "sendReply"
  /\ Len(lastSend.refText) = 101
  /\ Len(decoded.replyTo.message) = 100
  /\ decoded.replyTo.messageId = lastSend.ref

\* C25: the sender fields of a formatted message come from the sender
\* metadata of the payload when it has them, otherwise from the profile cache
\* entry of the sender's inbox id, otherwise the username is 'Unknown' (the
\* display name falls back to the username, the picture to none); a plain-text
\* message decodes to its raw text, with sender 'Unknown' without a cache entry.
C25_SenderPriority ==
  [][wire' # wire
     => LET c == wire'.content
            structured ==
              /\ c.parsed # NotJson
              /\ \/ c.type = "reply" /\ c.raw # <<>> /\ c.referenceId # 0
                 \/ c.type \in {"string", "object"} /\ c.parsed.text # <<>>
            embedded == IF structured THEN c.parsed.sender ELSE NoSender
            cached == profiles[wire'.senderInboxId]
        IN /\ decoded'.username =
                IF embedded.username # "" THEN embedded.username
                ELSE IF cached.username # "" THEN cached.username ELSE "Unknown"
           /\ decoded'.displayName =
                IF embedded.displayName # "" THEN embedded.displayName
                ELSE IF cached.displayName # "" THEN cached.displayName
                ELSE decoded'.username
           /\ decoded'.pfp_url =
                IF embedded.pfp_url # "" THEN embedded.pfp_url ELSE cached.pfp_url
           /\ (c.type = "string" /\ c.parsed = NotJson)
                => /\ decoded'.message = c.raw
                   /\ cached = NoSender
                        => decoded'.username = "Unknown" /\ decoded'.displayName = "Unknown"]_vars

\* a payload whose metadata has a username and no display name, from a sender
\* with a cache entry: the username is the embedded one, the display name the
\* cached one
C25_Witness ==
  /\ wire.content.type = "string"
  /\ wire.content.parsed # NotJson
  /\ wire.content.parsed.sender = Bob
  /\ profiles[wire.senderInboxId] = Carol
  /\ decoded.username = "bob"
  /\ decoded.displayName = "Carol"

\* C26: extractMentions returns, from left to right, one mention for each
\* '@username' token of the text whose username is (up to case) that of a
\* mentionable user: its startIndex is the index of the '@', its length the
\* length of the token, its user fields those of the user; other tokens give
\* no mention.
C26_MentionsAreKnownTokens ==
  messageText # <<>> =>
    LET t == messageText
        IsName(c) == c \in {"a", "A", "."}
        IsWord(c) == c \in {"a", "A"}
        Starts(i) == /\ i + 2 <= Len(t)
                     /\ t[i + 1] = "@"
                     /\ (i > 0 => ~IsWord(t[i]))
                     /\ IsWord(t[i + 2])
        Ends(i, e) == /\ e >= i + 2
                      /\ e <= Len(t)
                      /\ \A k \in (i + 2)..e : IsName(t[k])
                      /\ (e < Len(t) => ~IsName(t[e + 1]))
        Known(i) == \E e \in 1..Len(t), k \in 1..Len(mentionableUsers) :
                      /\ Ends(i, e)
                      /\ toLowerCase(SubSeq(t, i + 2, e))
                           = toLowerCase(mentionableUsers[k].username)
    IN /\ \A a, b \in 1..Len(mentions) :
            a < b => mentions[a].startIndex < mentions[b].startIndex
       /\ {mentions[a].startIndex : a \in 1..Len(mentions)}
            = {i \in 0..(Len(t) - 1) : Starts(i) /\ Known(i)}
       /\ \A a \in 1..Len(mentions) :
            LET m == mentions[a]
            IN /\ Ends(m.startIndex, m.startIndex + m.length)
               /\ toLowerCase(SubSeq(t, m.startIndex + 2, m.startIndex + m.length))
                    = toLowerCase(m.username)
               /\ \E k \in 1..Len(mentionableUsers) :
                    /\ mentionableUsers[k].username = m.username
                    /\ mentionableUsers[k].inboxId = m.inboxId
                    /\ mentionableUsers[k].displayName = m.displayName
                    /\ mentionableUsers[k].fid = m.fid

\* 'a @A' with user 'a' mentionable: one mention, startIndex 2, length 2
C26_Witness ==
  /\ messageText = <<"a", " ", "@", "A">>
  /\ Len(mentions) = 1
  /\ mentions[1].username = <<"a">>
  /\ mentions[1].startIndex = 2
  /\ mentions[1].length = 2

\* C30: two addMemberToGroup calls for the same inbox id and the same group
\* are never both between their membership check and their addMembers call,
\* so that the network addMembers is issued at most once for that inbox id.
C30_CheckAndAddDoNotRace ==
  \A r1, r2 \in Reqs :
    (/\ r1 # r2
     /\ op[r1].kind = "addMember" /\ op[r1].pc = "addMembers"
     /\ op[r2].kind = "addMember" /\ op[r2].pc = "addMembers"
     /\ op[r1].gid = op[r2].gid)
    => op[r1].inbox # op[r2].inbox

\* C27: an addMembersWithAddresses call during which no network access failed
\* returns without throwing, whatever addresses it was given; it passes to the
\* network, in one addMembers call, exactly the inbox ids of its registered
\* addresses that were no members when it read the member list, all of which
\* are members afterwards, and nothing for an address without an inbox.
C27_BatchAddsResolvable ==
  (lastBatch.status # None /\ ~lastBatch.fault)
  => LET resolvable == {InboxOf[a] : a \in lastBatch.addrs \cap Registered}
     IN /\ lastBatch.status = "ok"
        /\ lastBatch.added = resolvable \ lastBatch.existing
        /\ lastBatch.calls = (IF lastBatch.added = {} THEN 0 ELSE 1)
        /\ resolvable \subseteq members[lastBatch.gid]
        /\ \A a \in lastBatch.addrs \ Registered : InboxOf[a] \notin lastBatch.added

\* a call with a registered and a never-registered address added the
\* registered one in one addMembers call
C27_Witness ==
  /\ lastBatch.status = "ok"
  /\ ~lastBatch.fault
  /\ lastBatch.addrs = {"0xa", "0xb"}
  /\ lastBatch.added = {"ixa"}
  /\ lastBatch.calls = 1
  /\ "ixa" \in members[lastBatch.gid]

\* C28: getInboxIdFromAddress tells its three outcomes apart: the inbox id
\* when the network has one, null when the network has none, and something
\* else than these two when the lookup failed.
C28_ThreeOutcomes ==
  /\ resolved.outcome = "found" => resolved.ret = InboxOf[resolved.address]
  /\ resolved.outcome = "unregistered" => resolved.ret = None
  /\ resolved.outcome = "fails"
       => resolved.ret \notin {None} \cup {InboxOf[a] : a \in Addrs}

\* C29: a joinGroup call that was in flight when leaveGroup ran does not
\* attach afterwards: its step that follows the leaveGroup leaves currentGroup
\* null and the message list empty, and opens no stream.
C29_LeaveCancelsJoin ==
  [][(/\ lastOp = "leave"
      /\ join' # join
      /\ \A c \in Callers : join[c].pc = "none" => join'[c].pc = "none")
     => /\ currentGroup' = None
        /\ messages' = <<>>
        /\ streams' = streams
        /\ streamCleanup' = FALSE]_vars

====
